---- MODULE Spec2Model ----
(***************************************************************************)
(* Model of the analytics derivations and the view state machines of the   *)
(* ds-project front ends: the stock-market screens (ModelComparisonScreen, *)
(* PerformanceScreen) and the sentiment Dashboard.                         *)
(*                                                                         *)
(* JavaScript numbers are modelled as extended rationals <<n, d>>:         *)
(*   d > 0   the finite value n/d, in lowest terms;                        *)
(*   <<1,0>> +Infinity, <<-1,0>> -Infinity, <<0,0>> NaN.                   *)
(* Arithmetic on finite values is exact; the special values follow         *)
(* IEEE-754 as JavaScript does. Zero is always +0 (the inputs are JSON     *)
(* numbers and Math.abs results).                                          *)
(***************************************************************************)
EXTENDS Integers, Sequences, FiniteSets, TLC

VARIABLES
    stockData,          \* App.tsx: useState<StockData | null>, the predictions part
    currentScreen,      \* App.tsx: useState<Screen>
    view,               \* what the screen shown last rendered from stockData
    histogramCalls,     \* the createHistogramData calls of a render in progress
    symbol,             \* StockInputScreen: useState(''), a sequence of characters
    loading,            \* StockInputScreen: useState(false)
    inputError,         \* StockInputScreen: useState(''), the error shown
    fetchCall,          \* the fetchStockData call of handleFetch: its position
    logoutTimers,       \* SettingsScreen: setTimeout callbacks not yet run
    landingKeyword,     \* LandingPage: keyword, useState(''), a sequence of characters
    currentView,        \* sentiment App: 'landing' | 'dashboard'
    selectedKeyword,    \* sentiment App: the keyword handed to the Dashboard
    sentimentData,      \* Dashboard: useState<SentimentData>
    topPositivePosts,   \* Dashboard: useState<Post[]>
    topNegativePosts,   \* Dashboard: useState<Post[]>
    isLoading,          \* Dashboard: useState(true)
    error,              \* Dashboard: useState<string | null>
    calls,              \* fetchSentimentData calls awaiting their response
    started,            \* number of fetchSentimentData calls started so far
    delivered,          \* what the producer was given for the summary now held
    lastOutcome         \* how the call that ended last ended: "ok", "error"
                        \* (nothing set) or "partial" (threw after the summary)

inputVars == <<symbol, loading, inputError, fetchCall, logoutTimers>>
stockVars == <<stockData, currentScreen, view, histogramCalls, symbol, loading,
               inputError, fetchCall, logoutTimers>>
sentVars == <<landingKeyword, currentView, selectedKeyword, sentimentData, topPositivePosts,
              topNegativePosts, isLoading, error, calls, started, delivered,
              lastOutcome>>
vars == <<stockData, currentScreen, view, histogramCalls, symbol, loading,
          inputError, fetchCall, logoutTimers, landingKeyword, currentView,
          selectedKeyword,
          sentimentData, topPositivePosts, topNegativePosts, isLoading, error,
          calls, started, delivered, lastOutcome>>

(***************************************************************************)
(* Bounds of the model.                                                    *)
(***************************************************************************)
MaxLen == 2         \* longest prediction series enumerated
MaxPrice == 1       \* predicted and actual values range over 0..MaxPrice
MaxSamples == 2     \* largest classified sample set enumerated
MaxCalls == 2       \* fetchSentimentData calls started in one run
MaxTimers == 1      \* Logout timers pending at one time

(***************************************************************************)
(* JavaScript numbers.                                                     *)
(***************************************************************************)
NaN == <<0, 0>>
PosInf == <<1, 0>>
NegInf == <<-1, 0>>

AbsInt(i) == IF i < 0 THEN -i ELSE i

SignInt(i) == IF i < 0 THEN -1 ELSE IF i > 0 THEN 1 ELSE 0

RECURSIVE GCD(_, _)
GCD(a, b) == IF b = 0 THEN a ELSE GCD(b, a % b)

\* The finite value n/d (d # 0) in lowest terms with a positive denominator.
Norm(n, d) ==
    LET s == IF d < 0 THEN -1 ELSE 1
        g == GCD(AbsInt(n), AbsInt(d))
    IN  <<(s * n) \div g, (s * d) \div g>>

Num(i) == <<i, 1>>

IsNaN(x) == x[2] = 0 /\ x[1] = 0

IsInf(x) == x[2] = 0 /\ x[1] # 0

IsFiniteNum(x) == x[2] > 0

JsNeg(x) == <<-x[1], x[2]>>

JsAbs(x) == <<AbsInt(x[1]), x[2]>>

JsAdd(x, y) ==
    IF IsNaN(x) \/ IsNaN(y) THEN NaN
    ELSE IF IsInf(x) THEN (IF IsInf(y) /\ y[1] # x[1] THEN NaN ELSE x)
    ELSE IF IsInf(y) THEN y
    ELSE Norm(x[1] * y[2] + y[1] * x[2], x[2] * y[2])

JsSub(x, y) == JsAdd(x, JsNeg(y))

JsMul(x, y) ==
    IF IsNaN(x) \/ IsNaN(y) THEN NaN
    ELSE IF IsInf(x) \/ IsInf(y)
         THEN (IF x[1] = 0 \/ y[1] = 0 THEN NaN
               ELSE <<SignInt(x[1]) * SignInt(y[1]), 0>>)
    ELSE Norm(x[1] * y[1], x[2] * y[2])

JsDiv(x, y) ==
    IF IsNaN(x) \/ IsNaN(y) THEN NaN
    ELSE IF IsInf(x) THEN (IF IsInf(y) THEN NaN
                           ELSE <<x[1] * (IF y[1] < 0 THEN -1 ELSE 1), 0>>)
    ELSE IF IsInf(y) THEN Num(0)
    ELSE IF y[1] = 0 THEN (IF x[1] = 0 THEN NaN ELSE <<SignInt(x[1]), 0>>)
    ELSE Norm(x[1] * y[2], x[2] * y[1])

\* x < y; false when either is NaN, as every JavaScript comparison with NaN.
JsLt(x, y) ==
    IF IsNaN(x) \/ IsNaN(y) THEN FALSE
    ELSE IF IsInf(x) THEN x[1] < 0 /\ y # x
    ELSE IF IsInf(y) THEN y[1] > 0
    ELSE x[1] * y[2] < y[1] * x[2]

JsGt(x, y) == JsLt(y, x)

MathMax(x, y) ==
    IF IsNaN(x) \/ IsNaN(y) THEN NaN ELSE IF JsLt(x, y) THEN y ELSE x

MathMin(x, y) ==
    IF IsNaN(x) \/ IsNaN(y) THEN NaN ELSE IF JsLt(y, x) THEN y ELSE x

MathFloor(x) == IF x[2] = 0 THEN x ELSE Num(x[1] \div x[2])

\* Math.max(...xs): -Infinity for no arguments.
RECURSIVE MathMaxOf(_)
MathMaxOf(xs) ==
    IF xs = <<>> THEN NegInf ELSE MathMax(Head(xs), MathMaxOf(Tail(xs)))

\* xs.reduce((sum, x) => sum + x, 0)
RECURSIVE SumOf(_)
SumOf(xs) ==
    IF xs = <<>> THEN Num(0)
    ELSE JsAdd(SumOf(SubSeq(xs, 1, Len(xs) - 1)), xs[Len(xs)])

\* x.toFixed(0): the nearest integer, the larger one of two equally near (in
\* magnitude), as a decimal; "NaN", "Infinity" and "-Infinity" otherwise. A
\* finite result is modelled by the record of its integer.
toFixed0(x) ==
    IF IsNaN(x) THEN [text |-> "NaN", int |-> 0]
    ELSE IF IsInf(x)
         THEN [text |-> IF x[1] > 0 THEN "Infinity" ELSE "-Infinity", int |-> 0]
    ELSE LET m == (2 * AbsInt(x[1]) + x[2]) \div (2 * x[2])
         IN  [text |-> "digits", int |-> SignInt(x[1]) * m]

\* value || 0 on a JSON number that may be absent: the value unless it is
\* absent, 0 or NaN.
Absent == <<0, -1>>

OrZero(x) == IF x = Absent \/ IsNaN(x) THEN Num(0) ELSE x

(***************************************************************************)
(* Stock market front end: the data the screens are given.                 *)
(* A prediction point is { date, predicted, actual }; the date of the i-th *)
(* point of a series is the day index i.                                   *)
(***************************************************************************)
Prices == 0..MaxPrice

Point(i, p, a) == [date |-> i, predicted |-> p, actual |-> a]

MkStockData(rf, lr) ==
    [predictions |-> [randomForest |-> rf, linearRegression |-> lr]]

\* The two series of one analysis: the models are scored against the same
\* actual values act, and the producer may deliver series of different
\* lengths n1 and n2.
SeriesPair(n1, n2, rfp, lrp, act) ==
    MkStockData([i \in 1..n1 |-> Point(i, rfp[i], act[i])],
                [i \in 1..n2 |-> Point(i, lrp[i], act[i])])

MaxOf(a, b) == IF a < b THEN b ELSE a

\* spec.md section 8, end-to-end example 2: error magnitudes
\* RF = [1,2,3,4,10] and LR = [5,5,5,5,5], here against an actual value of 100.
ExampleRfPredicted == <<101, 102, 103, 104, 110>>

ExampleStockData ==
    MkStockData([i \in 1..5 |-> Point(i, ExampleRfPredicted[i], 100)],
                [i \in 1..5 |-> Point(i, 105, 100)])

\* spec.md section 8, end-to-end example 1: the aligned series
\* [(1,100,100),(2,102,100),(3,98,101)] of (key, predicted, actual), here
\* the random forest series, next to a linear regression series over the
\* same actual values.
ExampleAlignedStockData ==
    MkStockData(<<Point(1, 100, 100), Point(2, 102, 100), Point(3, 98, 101)>>,
                <<Point(1, 100, 100), Point(2, 101, 100), Point(3, 102, 101)>>)

\* A stockData whose only point has a negative actual value: one prediction
\* is off by 2, the other by 1.
NegativeActualStockData ==
    MkStockData(<<Point(1, 1, -1)>>, <<Point(1, -2, -1)>>)

NoStockData == [predictions |-> [randomForest |-> <<>>, linearRegression |-> <<>>],
                none |-> TRUE]

(***************************************************************************)
(* The producer of modelMetrics (the stock back end). Its code is not part *)
(* of the sources: directionalAccuracy is modelled from spec.md 4.2, and   *)
(* accuracy is any of a few values.                                        *)
(***************************************************************************)
Accuracies == {Num(50), Num(75)}

\* The accuracies of the two models: either one ahead, and equal.
AccuracyPairs ==
    {pair \in Accuracies \X Accuracies : pair[1] = Num(50) \/ pair[2] = Num(50)}

\* The deltas of actual and of predicted from point i to point i + 1 have
\* the same sign, a delta of 0 matching only a delta of 0.
SignsMatch(series, i) ==
    SignInt(series[i + 1].actual - series[i].actual) =
        SignInt(series[i + 1].predicted - series[i].predicted)

\* As DirectionalAccuracy, with a predicted delta of 0 matching any actual
\* delta.
DirectionalAccuracy_FlatMatchesAll(series) ==
    IF Len(series) = 0 THEN Absent
    ELSE IF Len(series) = 1 THEN Num(0)
    ELSE JsDiv(Num(100 * Cardinality(
                   {i \in 1..(Len(series) - 1) :
                       \/ SignsMatch(series, i)
                       \/ series[i + 1].predicted = series[i].predicted})),
               Num(Len(series) - 1))

\* As DirectionalAccuracy, with an actual delta of 0 matching any predicted
\* delta.
DirectionalAccuracy_FlatActualMatchesAll(series) ==
    IF Len(series) = 0 THEN Absent
    ELSE IF Len(series) = 1 THEN Num(0)
    ELSE JsDiv(Num(100 * Cardinality(
                   {i \in 1..(Len(series) - 1) :
                       \/ SignsMatch(series, i)
                       \/ series[i + 1].actual = series[i].actual})),
               Num(Len(series) - 1))

\* The percentage of consecutive pairs whose signs match; 0 for one point,
\* and no value (the calculator fails) for no point.
DirectionalAccuracy(series) ==
    IF Len(series) = 0 THEN Absent
    ELSE IF Len(series) = 1 THEN Num(0)
    ELSE JsDiv(Num(100 * Cardinality({i \in 1..(Len(series) - 1) :
                                        SignsMatch(series, i)})),
               Num(Len(series) - 1))

\* stockData with the modelMetrics of its two series.
WithMetrics(sd, rfAccuracy, lrAccuracy) ==
    [predictions |-> sd.predictions,
     modelMetrics |->
        [randomForest |->
            [accuracy |-> rfAccuracy,
             directionalAccuracy |->
                 DirectionalAccuracy(sd.predictions.randomForest)],
         linearRegression |->
            [accuracy |-> lrAccuracy,
             directionalAccuracy |->
                 DirectionalAccuracy(sd.predictions.linearRegression)]]]

(***************************************************************************)
(* PerformanceScreen.tsx                                                   *)
(***************************************************************************)
AbsError(p) == JsAbs(JsSub(Num(p.predicted), Num(p.actual)))

rfErrors(sd) ==
    [i \in 1..Len(sd.predictions.randomForest) |->
        AbsError(sd.predictions.randomForest[i])]

lrErrors(sd) ==
    [i \in 1..Len(sd.predictions.linearRegression) |->
        AbsError(sd.predictions.linearRegression[i])]

bins == 5

maxErrorOf(errors) == MathMaxOf(errors)

binSizeOf(errors) == JsDiv(maxErrorOf(errors), Num(bins))

\* `$${(i * binSize).toFixed(0)}-${((i + 1) * binSize).toFixed(0)}` for the
\* bin of index i (from 0): the two numerals of the label.
histogramRange(i, binSize) ==
    <<toFixed0(JsMul(Num(i), binSize)), toFixed0(JsMul(Num(i + 1), binSize))>>

\* The bin index without the Math.min(..., bins - 1) clamp.
binIndexOf_NoClamp(err, binSize) == MathFloor(JsDiv(err, binSize))

binIndexOf(err, binSize) ==
    MathMin(MathFloor(JsDiv(err, binSize)), Num(bins - 1))

\* histogram[binIndex] is an element of the array only for an integer index
\* 0..bins-1; for any other index it is undefined and .count++ throws.
IsBinIndex(ix) == ix[2] = 1 /\ ix[1] \in 0..(bins - 1)

\* createHistogramData(errors, label, color): the bins with their counts, or
\* threw = TRUE when the forEach throws a TypeError.
createHistogramData(errors, label) ==
    LET binSize == binSizeOf(errors)
        index(k) == binIndexOf(errors[k], binSize)
    IN  IF \E k \in 1..Len(errors) : ~IsBinIndex(index(k))
        THEN [threw |-> TRUE, histogram |-> <<>>]
        ELSE [threw |-> FALSE,
              histogram |->
                  [b \in 1..bins |->
                      [range |-> histogramRange(b - 1, binSize),
                       count |-> Cardinality({k \in 1..Len(errors) :
                                                  index(k) = Num(b - 1)}),
                       model |-> label]]]

\* One call of createHistogramData while it runs: the errors it was given,
\* the counts of its histogram array, the number of errors its forEach has
\* visited, and whether it is running, has returned or has thrown.
NewCall(errors) ==
    [errors |-> errors, counts |-> [b \in 1..bins |-> 0], position |-> 0,
     status |-> "running"]

\* The two calls of a render: for rfHistogram and for lrHistogram.
Models == {"Random Forest", "Linear Regression"}

ErrorsOf(sd, model) ==
    IF model = "Random Forest" THEN rfErrors(sd) ELSE lrErrors(sd)

NoCalls == [model \in Models |-> [NewCall(<<>>) EXCEPT !.status = "none"]]

\* The histogram array hoisted out of createHistogramData: one array, which
\* every call counts into.
HistogramOf_Hoisted(model) == "Random Forest"

\* The histogram array a call counts into: `const histogram = Array.from(...)`
\* inside the function, one array per call.
HistogramOf(model) == model

rfHistogram(sd) == createHistogramData(rfErrors(sd), "Random Forest")

lrHistogram(sd) == createHistogramData(lrErrors(sd), "Linear Regression")

combinedHistogram(rfH, lrH) ==
    [index \in 1..Len(rfH) |->
        [range |-> rfH[index].range,
         RandomForest |-> rfH[index].count,
         LinearRegression |-> lrH[index].count]]

PointAccuracy(p) ==
    MathMax(Num(0),
            JsSub(Num(100), JsMul(JsDiv(AbsError(p), Num(p.actual)), Num(100))))

\* performanceTrends: maps over randomForest and reads linearRegression[index];
\* when that is undefined (a shorter linearRegression) lr.predicted throws.
performanceTrends(sd) ==
    LET rfs == sd.predictions.randomForest
        lrs == sd.predictions.linearRegression
    IN  IF Len(lrs) < Len(rfs)
        THEN [threw |-> TRUE, rows |-> <<>>]
        ELSE [threw |-> FALSE,
              rows |-> [index \in 1..Len(rfs) |->
                          [date |-> rfs[index].date,
                           rfError |-> AbsError(rfs[index]),
                           lrError |-> AbsError(lrs[index]),
                           rfAccuracy |-> PointAccuracy(rfs[index]),
                           lrAccuracy |-> PointAccuracy(lrs[index])]]]

\* const bestModel = rfMetrics.accuracy > lrMetrics.accuracy ? ... with the
\* comparison taken as >=.
bestModel_AtLeast(sd) ==
    IF ~JsLt(sd.modelMetrics.randomForest.accuracy,
             sd.modelMetrics.linearRegression.accuracy)
    THEN "Random Forest" ELSE "Linear Regression"

bestModel(sd) ==
    IF JsGt(sd.modelMetrics.randomForest.accuracy,
            sd.modelMetrics.linearRegression.accuracy)
    THEN "Random Forest" ELSE "Linear Regression"

\* errorName is the name of the error a render threw, bestModel the model the
\* screen names as the better one.
EmptyView ==
    [screen |-> "none", threw |-> FALSE, errorName |-> "none",
     bestModel |-> "none",
     rfHistogram |-> <<>>, lrHistogram |-> <<>>, combinedHistogram |-> <<>>,
     performanceTrends |-> <<>>, combinedData |-> <<>>, avgErrors |-> <<>>]

\* The values PerformanceScreen derives in one render, in source order; a
\* throw in any of them aborts the render.
PerformanceScreen(sd) ==
    LET rfH == rfHistogram(sd)
        lrH == lrHistogram(sd)
        trends == performanceTrends(sd)
    IN  IF rfH.threw \/ lrH.threw \/ trends.threw
        THEN [EmptyView EXCEPT !.screen = "performance", !.threw = TRUE,
                               !.errorName = "TypeError"]
        ELSE [EmptyView EXCEPT
                 !.screen = "performance",
                 !.bestModel = bestModel(sd),
                 !.rfHistogram = rfH.histogram,
                 !.lrHistogram = lrH.histogram,
                 !.combinedHistogram = combinedHistogram(rfH.histogram, lrH.histogram),
                 !.performanceTrends = trends.rows]

(***************************************************************************)
(* ModelComparisonScreen (App.tsx, second half)                            *)
(***************************************************************************)
\* combinedData with the index dropped from the linearRegression lookup.
combinedData_FirstLr(sd) ==
    LET rfs == sd.predictions.randomForest
        lrs == sd.predictions.linearRegression
    IN  IF Len(lrs) < Len(rfs)
        THEN [threw |-> TRUE, rows |-> <<>>]
        ELSE [threw |-> FALSE,
              rows |-> [index \in 1..Len(rfs) |->
                          [date |-> rfs[index].date,
                           actual |-> rfs[index].actual,
                           randomForest |-> rfs[index].predicted,
                           linearRegression |-> lrs[1].predicted,
                           rfError |-> AbsError(rfs[index]),
                           lrError |-> AbsError(lrs[1])]]]

\* combinedData: maps over randomForest and reads linearRegression[index];
\* when that is undefined lrItem.predicted throws.
combinedData(sd) ==
    LET rfs == sd.predictions.randomForest
        lrs == sd.predictions.linearRegression
    IN  IF Len(lrs) < Len(rfs)
        THEN [threw |-> TRUE, rows |-> <<>>]
        ELSE [threw |-> FALSE,
              rows |-> [index \in 1..Len(rfs) |->
                          [date |-> rfs[index].date,
                           actual |-> rfs[index].actual,
                           randomForest |-> rfs[index].predicted,
                           linearRegression |-> lrs[index].predicted,
                           rfError |-> AbsError(rfs[index]),
                           lrError |-> AbsError(lrs[index])]]]

\* avgErrors: the sum of the errors over combinedData.length.
avgErrors(rows) ==
    <<[model |-> "Random Forest",
       avgError |-> JsDiv(SumOf([i \in 1..Len(rows) |-> rows[i].rfError]),
                         Num(Len(rows)))],
      [model |-> "Linear Regression",
       avgError |-> JsDiv(SumOf([i \in 1..Len(rows) |-> rows[i].lrError]),
                         Num(Len(rows)))]>>

\* const rfBetter = rfMetrics.accuracy > lrMetrics.accuracy
rfBetter(sd) ==
    JsGt(sd.modelMetrics.randomForest.accuracy,
         sd.modelMetrics.linearRegression.accuracy)

\* The values ModelComparisonScreen derives in one render; the title of the
\* winner card is `${rfBetter ? 'Random Forest' : 'Linear Regression'}
\* Performed Better`.
ModelComparisonScreen(sd) ==
    LET cd == combinedData(sd)
    IN  IF cd.threw
        THEN [EmptyView EXCEPT !.screen = "comparison", !.threw = TRUE,
                               !.errorName = "TypeError"]
        ELSE [EmptyView EXCEPT
                 !.screen = "comparison",
                 !.bestModel = IF rfBetter(sd) THEN "Random Forest"
                               ELSE "Linear Regression",
                 !.combinedData = cd.rows,
                 !.avgErrors = avgErrors(cd.rows)]

(***************************************************************************)
(* The producer of the sentiment summary (the /quick-analyze endpoint).    *)
(* Its code is not part of the sources; it is modelled from spec.md 4.4.   *)
(***************************************************************************)
Classes == {"positive", "neutral", "negative"}

NoBaseline ==
    [has |-> FALSE, positive |-> Num(0), neutral |-> Num(0), negative |-> Num(0)]

\* spec.md section 8, example 3: a baseline with positive = 50%.
ExampleBaseline ==
    [has |-> TRUE, positive |-> Num(50), neutral |-> Num(30), negative |-> Num(20)]

Baselines == {NoBaseline, ExampleBaseline}

\* spec.md section 8, example 3: 18 positive, 9 neutral, 3 negative samples.
ExampleCounts == [positive |-> 18, neutral |-> 9, negative |-> 3]

SampleCounts ==
    {c \in [Classes -> 0..MaxSamples] :
        c.positive + c.neutral + c.negative <= MaxSamples} \cup {ExampleCounts}

TotalCount(c) == c.positive + c.neutral + c.negative

\* percentage = 100 * count(class) / total_count, and 0 when total_count = 0.
Percentage(c, class) ==
    IF TotalCount(c) = 0 THEN Num(0)
    ELSE JsDiv(Num(100 * c[class]), Num(TotalCount(c)))

\* change = current percentage - baseline percentage, and 0 without baseline.
Change(c, class, baseline) ==
    IF baseline.has THEN JsSub(Percentage(c, class), baseline[class]) ELSE Num(0)

SentimentAggregator(c, baseline) ==
    [class \in Classes |->
        [percentage |-> Percentage(c, class),
         change |-> Change(c, class, baseline)]]

\* What a response may leave out of sentiment_summary.
Omissions == {"nothing", "summary", "negative", "neutral.percentage"}

\* The sentiment_summary of the response body: has = FALSE for a member
\* that is not there, Absent for a number that is not there.
WireSummary(summary, omission) ==
    [has |-> omission # "summary",
     positive |-> [has |-> TRUE,
                   percentage |-> summary.positive.percentage,
                   change |-> summary.positive.change],
     neutral  |-> [has |-> TRUE,
                   percentage |-> IF omission = "neutral.percentage"
                                  THEN Absent ELSE summary.neutral.percentage,
                   change |-> summary.neutral.change],
     negative |-> [has |-> omission # "negative",
                   percentage |-> summary.negative.percentage,
                   change |-> summary.negative.change]]

(***************************************************************************)
(* The posts of a response. A member of a post is <<>> when it is not      *)
(* there and <<v>> when it is v.                                           *)
(***************************************************************************)
FullPost ==
    [isNull |-> FALSE, content |-> <<"great">>, score |-> <<90>>,
     platform |-> <<"Reddit">>,
     engagement |-> <<[likes |-> 7, comments |-> 1, shares |-> 0]>>,
     timestamp |-> <<"3h ago">>]

FalsyPost ==
    [isNull |-> FALSE, content |-> <<"">>, score |-> <<0>>,
     platform |-> <<"">>,
     engagement |-> <<[likes |-> 0, comments |-> 0, shares |-> 0]>>,
     timestamp |-> <<"">>]

BarePost ==
    [isNull |-> FALSE, content |-> <<>>, score |-> <<>>, platform |-> <<>>,
     engagement |-> <<>>, timestamp |-> <<>>]

NullPost == [BarePost EXCEPT !.isNull = TRUE]

NoList == [has |-> FALSE, list |-> <<>>]

List(xs) == [has |-> TRUE, list |-> xs]

\* sample_positive and sample_negative of a response over the counts c:
\* no posts of a class that has no sample.
PostCases(c) ==
    {[sample_positive |-> NoList, sample_negative |-> NoList],
     [sample_positive |-> List(<<>>), sample_negative |-> List(<<>>)]}
    \cup (IF c.positive > 0
          THEN {[sample_positive |-> List(<<BarePost, FullPost>>),
                 sample_negative |-> NoList]}
          ELSE {})
    \cup (IF c.positive > 0 /\ c.negative > 0
          THEN {[sample_positive |-> List(<<FullPost>>),
                 sample_negative |-> List(<<FalsyPost>>)],
                [sample_positive |-> List(<<FullPost>>),
                 sample_negative |-> List(<<NullPost>>)]}
          ELSE {})

(***************************************************************************)
(* Dashboard.tsx                                                           *)
(***************************************************************************)
\* The read without its "|| 0": undefined for a member that is not there.
ReadSummary_NoDefault(wire, class, field) ==
    IF ~wire.has \/ ~wire[class].has THEN Absent
    ELSE wire[class][field]

\* data.sentiment_summary?.<class>?.<field> || 0
ReadSummary(wire, class, field) ==
    IF ~wire.has \/ ~wire[class].has THEN Num(0)
    ELSE OrZero(wire[class][field])

\* setSentimentData with change read from the percentage member.
SentimentDataOf_CopiedField(wire) ==
    [class \in Classes |->
        [percentage |-> ReadSummary(wire, class, "percentage"),
         change |-> ReadSummary(wire, class, "percentage")]]

\* The argument of setSentimentData.
SentimentDataOf(wire) ==
    [class \in Classes |->
        [percentage |-> ReadSummary(wire, class, "percentage"),
         change |-> ReadSummary(wire, class, "change")]]

StrOr(m, default) == IF m = <<>> \/ m = <<"">> THEN default ELSE m[1]

NumOr(m, default) == IF m = <<>> \/ m = <<0>> THEN default ELSE m[1]

ObjOr(m, default) == IF m = <<>> THEN default ELSE m[1]

\* (data.sample_positive || []).map((post, index) => ...), index from 0.
PositivePost(post, index, keyword) ==
    [id |-> <<"pos", index>>,
     content |-> StrOr(post.content, <<"Positive sentiment about", keyword>>),
     sentiment |-> "positive",
     score |-> NumOr(post.score, 85),
     platform |-> StrOr(post.platform, "Twitter"),
     engagement |-> ObjOr(post.engagement,
                          [likes |-> 100, comments |-> 10, shares |-> 5]),
     timestamp |-> StrOr(post.timestamp, <<index + 1, "h ago">>)]

NegativePost(post, index, keyword) ==
    [id |-> <<"neg", index>>,
     content |-> StrOr(post.content, <<"Negative sentiment about", keyword>>),
     sentiment |-> "negative",
     score |-> NumOr(post.score, -65),
     platform |-> StrOr(post.platform, "Twitter"),
     engagement |-> ObjOr(post.engagement,
                          [likes |-> 50, comments |-> 5, shares |-> 2]),
     timestamp |-> StrOr(post.timestamp, <<index + 2, "h ago">>)]

\* Reading a member of a null post throws a TypeError.
MapThrows(sample) == \E i \in 1..Len(sample.list) : sample.list[i].isNull

PositivePosts(sample, keyword) ==
    [i \in 1..Len(sample.list) |-> PositivePost(sample.list[i], i - 1, keyword)]

NegativePosts(sample, keyword) ==
    [i \in 1..Len(sample.list) |-> NegativePost(sample.list[i], i - 1, keyword)]

\* The offsets the trend adds to positive and to neutral on Jan 1 .. Jan 7.
PositiveOffsets_Slip == <<0, 2, -1, 1, 1, 3, 0>>

PositiveOffsets == <<0, 2, -1, 1, 0, 3, 0>>

NeutralOffsets_Slip == <<0, -2, 1, -1, 0, -2, 0>>

NeutralOffsets == <<0, -2, 1, -1, 0, -3, 0>>

TrendLength == 7

trendData(sd) ==
    [i \in 1..TrendLength |->
        [date |-> <<"Jan", i>>,
         positive |-> JsAdd(sd.positive.percentage, Num(PositiveOffsets[i])),
         neutral |-> JsAdd(sd.neutral.percentage, Num(NeutralOffsets[i])),
         negative |-> sd.negative.percentage]]

Truthy(msg) == msg # "null" /\ msg # ""

\* SentimentCard.tsx: the percentage and the change line of a card.
SentimentCard(type, percentage, change) ==
    [type |-> type,
     percentage |-> percentage,
     sign |-> IF JsGt(change, Num(0)) THEN "+" ELSE "",
     change |-> change]

\* The Dashboard without the early return of the spinner: the buttons of the
\* error view and of the data view stay on the screen while a call runs.
DashboardShows_NoSpinner == IF Truthy(error) THEN "error" ELSE "data"

\* What the Dashboard returns: the spinner, the error view or the data view.
DashboardShows ==
    IF isLoading THEN "loading" ELSE IF Truthy(error) THEN "error" ELSE "data"

(***************************************************************************)
(* The sentiment front end, before any keyword is analysed.                *)
(***************************************************************************)
ZeroSentiment ==
    [class \in Classes |-> [percentage |-> Num(0), change |-> Num(0)]]

NoInput ==
    [kind |-> "none", counts |-> [class \in Classes |-> 0],
     baseline |-> NoBaseline, omission |-> "nothing",
     posts |-> [sample_positive |-> NoList, sample_negative |-> NoList],
     call |-> 0]

\* The state of a Dashboard that has just been mounted (or is not mounted).
FreshDashboard ==
    /\ sentimentData' = ZeroSentiment
    /\ topPositivePosts' = <<>>
    /\ topNegativePosts' = <<>>
    /\ delivered' = NoInput
    /\ lastOutcome' = "none"

SentInit ==
    /\ landingKeyword = <<>>
    /\ currentView = "landing"
    /\ selectedKeyword = <<>>
    /\ sentimentData = ZeroSentiment
    /\ topPositivePosts = <<>>
    /\ topNegativePosts = <<>>
    /\ isLoading = TRUE
    /\ error = "null"
    /\ calls = {}
    /\ started = 0
    /\ delivered = NoInput
    /\ lastOutcome = "none"

(***************************************************************************)
(* StockInputScreen (part_003) and SettingsScreen (part_004): the symbol   *)
(* typed, the backends tried by fetchStockData and the Logout timer.       *)
(* Text is a sequence of one-character strings, so that trim() and length  *)
(* are computed on it.                                                     *)
(***************************************************************************)
Space == " "

\* String.prototype.trim, on the one white-space character enumerated.
RECURSIVE TrimStart(_)
TrimStart(text) ==
    IF text # <<>> /\ Head(text) = Space THEN TrimStart(Tail(text)) ELSE text

RECURSIVE TrimEnd(_)
TrimEnd(text) ==
    IF text # <<>> /\ text[Len(text)] = Space
    THEN TrimEnd(SubSeq(text, 1, Len(text) - 1))
    ELSE text

Trim(text) == TrimEnd(TrimStart(text))

\* String.prototype.toUpperCase, on the characters enumerated.
ToUpperCase(text) ==
    [i \in 1..Len(text) |-> IF text[i] = "a" THEN "A" ELSE text[i]]

\* handleFetch: symbol.length > 5.
MaxSymbolLength == 5

\* What the user types or pastes into the <Input maxLength={5}>.
TypedTexts ==
    {<<>>, <<Space>>, <<"a">>, <<Space, "A", Space>>,
     <<"A", "A", "P", "L">>, <<"A", "A", "P", "L", Space>>}

\* popularStocks, the quick-select buttons (two of the six).
popularStocks == {<<"A", "A", "P", "L">>, <<"G", "O", "O", "G", "L">>}

\* A symbol longer than the input lets through, for the handler's own check.
LongSymbol == <<Space, "A", "A", "P", "L", Space>>

\* The backends fetchStockData tries, in the order of the for...of loop.
API_URLS ==
    <<"http://127.0.0.1:8001", "http://localhost:8001",
      "http://127.0.0.1:8000", "http://localhost:8000">>

\* How a backend can answer one request: fetch itself rejects; a non-OK
\* status whose JSON body has a detail; a non-OK status whose body has no
\* detail or cannot be parsed; an OK status with the data; an OK status
\* whose body cannot be parsed.
FailedAnswers == {"network", "status-detail", "status"}
Answers == FailedAnswers \cup {"ok", "ok-unreadable"}

\* The message of the Error an answer leads to.
ErrorMessage(answer) ==
    CASE answer = "network" -> "Failed to fetch"
      [] answer = "status-detail" -> "Stock symbol not found"
      [] answer = "status" -> "HTTP 500: Failed to fetch stock data"
      [] answer = "ok-unreadable" -> "Unexpected token < in JSON"

NoError == [message |-> "null", url |-> "none"]
ErrorOf(answer, url) == [message |-> ErrorMessage(answer), url |-> url]

\* The analyses a backend answers with.
StockResponses ==
    {WithMetrics(ExampleStockData, Num(75), Num(50)),
     WithMetrics(ExampleAlignedStockData, Num(50), Num(50))}

\* fetchStockData before it is called: status is "idle", "pending" (a request
\* is in flight to the last URL contacted), "resolved" or "rejected".
NoFetch ==
    [status |-> "idle", symbol |-> <<>>, contacted |-> <<>>, failed |-> 0,
     lastError |-> NoError, rejection |-> NoError, data |-> NoStockData,
     from |-> "none"]

\* The state of a StockInputScreen just mounted.
InputMounted ==
    /\ symbol = <<>>
    /\ loading = FALSE
    /\ inputError = ""

InputInit ==
    /\ InputMounted
    /\ fetchCall = NoFetch
    /\ logoutTimers = 0

StockInit ==
    /\ stockData = NoStockData
    /\ currentScreen = "input"
    /\ view = EmptyView
    /\ histogramCalls = NoCalls
    /\ InputInit

Init == StockInit /\ SentInit

\* fetchSentimentData up to its first await: setIsLoading(true),
\* setError(null) and the request.
fetchSentimentData_start ==
    /\ started < MaxCalls
    /\ started' = started + 1
    /\ calls' = calls \cup {started + 1}
    /\ isLoading' = TRUE
    /\ error' = "null"

\* What the user types into the keyword input of the landing page.
TypedKeywords ==
    {<<>>, <<Space>>, <<Space, Space>>, <<"a", "i">>, <<Space, "a", "i", Space>>,
     <<"m", "l", Space>>, <<"a", Space, "i">>}

\* The keywords the landing page hands to the App.
Keywords == {Trim(text) : text \in TypedKeywords} \ {<<>>}

\* LandingPage, Input onChange: setKeyword(e.target.value).
setKeyword ==
    /\ currentView = "landing"
    /\ \E text \in TypedKeywords : landingKeyword' = text
    /\ UNCHANGED <<currentView, selectedKeyword, sentimentData, topPositivePosts,
                   topNegativePosts, isLoading, error, calls, started, delivered,
                   lastOutcome, stockVars>>

\* App.handleAnalyze(text), called by the landing page: the LandingPage is
\* replaced by the Dashboard, whose effect starts the first
\* fetchSentimentData call.
handleAnalyze(text) ==
    /\ currentView = "landing"
    /\ selectedKeyword' = text
    /\ currentView' = "dashboard"
    /\ landingKeyword' = <<>>
    /\ FreshDashboard
    /\ fetchSentimentData_start
    /\ UNCHANGED stockVars

\* LandingPage.handleSubmit: if (keyword.trim()) onAnalyze(keyword.trim()).
handleSubmit_Untrimmed ==
    /\ currentView = "landing"
    /\ IF Trim(landingKeyword) # <<>>
       THEN handleAnalyze(landingKeyword)
       ELSE UNCHANGED vars

handleSubmit ==
    /\ currentView = "landing"
    /\ IF Trim(landingKeyword) # <<>>
       THEN handleAnalyze(Trim(landingKeyword))
       ELSE UNCHANGED vars

\* App.handleBack, from the Back button of the data view or the Go Back
\* button of the error view: the Dashboard is unmounted, and what its calls
\* still in flight set is lost.
handleBack ==
    /\ currentView = "dashboard"
    /\ DashboardShows \in {"data", "error"}
    /\ currentView' = "landing"
    /\ selectedKeyword' = <<>>
    /\ landingKeyword' = <<>>
    /\ FreshDashboard
    /\ isLoading' = TRUE
    /\ error' = "null"
    /\ calls' = {}
    /\ UNCHANGED <<started, stockVars>>

\* The Refresh button of the data view.
ClickRefresh ==
    /\ currentView = "dashboard"
    /\ DashboardShows = "data"
    /\ fetchSentimentData_start
    /\ UNCHANGED <<landingKeyword, currentView, selectedKeyword, sentimentData, topPositivePosts,
                   topNegativePosts, delivered, lastOutcome, stockVars>>

\* The Retry button of the error view.
ClickRetry ==
    /\ currentView = "dashboard"
    /\ DashboardShows = "error"
    /\ fetchSentimentData_start
    /\ UNCHANGED <<landingKeyword, currentView, selectedKeyword, sentimentData, topPositivePosts,
                   topNegativePosts, delivered, lastOutcome, stockVars>>

\* What the catch block can be given: a rejected fetch, a status that is not
\* ok, a body that is not JSON, a body that is null.
FailureMessages ==
    {"Failed to fetch", "API Error: 500", "Unexpected end of JSON input",
     "Cannot read properties of null"}

\* The catch block without the finally block after it: isLoading stays as
\* the start of the call set it.
fetchSentimentData_catch_NoFinally ==
    /\ \E call \in calls : calls' = calls \ {call}
    /\ \E msg \in FailureMessages : error' = msg
    /\ lastOutcome' = "error"
    /\ UNCHANGED <<landingKeyword, currentView, selectedKeyword, sentimentData, topPositivePosts,
                   topNegativePosts, started, delivered, isLoading, stockVars>>

\* A call ends in the catch block before it has set anything.
fetchSentimentData_catch ==
    /\ \E call \in calls : calls' = calls \ {call}
    /\ \E msg \in FailureMessages : error' = msg
    /\ isLoading' = FALSE
    /\ lastOutcome' = "error"
    /\ UNCHANGED <<landingKeyword, currentView, selectedKeyword, sentimentData, topPositivePosts,
                   topNegativePosts, started, delivered, stockVars>>

\* A call gets an ok response whose body is an object: the summary is set,
\* then the posts are mapped and set; a post that is null throws after the
\* summary has been set.
fetchSentimentData_ok ==
    /\ \E call \in calls, c \in SampleCounts, baseline \in Baselines,
          omission \in Omissions :
         \E posts \in PostCases(c) :
            /\ calls' = calls \ {call}
            /\ sentimentData' =
                   SentimentDataOf(WireSummary(SentimentAggregator(c, baseline),
                                               omission))
            /\ delivered' = [kind |-> "response", counts |-> c,
                             baseline |-> baseline, omission |-> omission,
                             posts |-> posts, call |-> call]
            /\ IF MapThrows(posts.sample_positive) \/ MapThrows(posts.sample_negative)
               THEN /\ error' = "Cannot read properties of null"
                    /\ lastOutcome' = "partial"
                    /\ UNCHANGED <<topPositivePosts, topNegativePosts>>
               ELSE /\ topPositivePosts' =
                           PositivePosts(posts.sample_positive, selectedKeyword)
                    /\ topNegativePosts' =
                           NegativePosts(posts.sample_negative, selectedKeyword)
                    /\ lastOutcome' = "ok"
                    /\ UNCHANGED error
    /\ isLoading' = FALSE
    /\ UNCHANGED <<landingKeyword, currentView, selectedKeyword, started, stockVars>>

Next ==
    \/ setKeyword
    \/ handleSubmit
    \/ handleBack
    \/ ClickRefresh
    \/ ClickRetry
    \/ fetchSentimentData_catch
    \/ fetchSentimentData_ok

Spec == Init /\ [][Next]_vars

(***************************************************************************)
(* SpecAnalytics: the derivations of the stock screens, applied to every   *)
(* enumerated stockData. The App holds the data of one analysis and       *)
(* shows its dashboard; navigating to a screen renders it from stockData.  *)
(***************************************************************************)
DashboardView == [EmptyView EXCEPT !.screen = "dashboard"]

InitAnalytics ==
    /\ \E accuracy \in AccuracyPairs :
         \/ \E n1 \in 0..MaxLen, n2 \in 0..MaxLen :
               \E rfp \in [1..n1 -> Prices], lrp \in [1..n2 -> Prices],
                  act \in [1..MaxOf(n1, n2) -> Prices] :
                   stockData = WithMetrics(SeriesPair(n1, n2, rfp, lrp, act),
                                           accuracy[1], accuracy[2])
         \/ stockData = WithMetrics(ExampleStockData, accuracy[1], accuracy[2])
         \/ stockData = WithMetrics(ExampleAlignedStockData,
                                    accuracy[1], accuracy[2])
         \/ stockData = WithMetrics(NegativeActualStockData,
                                    accuracy[1], accuracy[2])
    /\ currentScreen = "dashboard"
    /\ view = DashboardView
    /\ histogramCalls = NoCalls
    /\ InputInit
    /\ SentInit

\* onNavigate('comparison') on the dashboard, and the render that follows.
NavigateComparison ==
    /\ currentScreen = "dashboard"
    /\ ~view.threw
    /\ currentScreen' = "comparison"
    /\ view' = ModelComparisonScreen(stockData)
    /\ UNCHANGED <<stockData, histogramCalls, inputVars, sentVars>>

\* onNavigate('performance') on the dashboard or the comparison screen.
NavigatePerformance ==
    /\ currentScreen \in {"dashboard", "comparison"}
    /\ ~view.threw
    /\ currentScreen' = "performance"
    /\ view' = PerformanceScreen(stockData)
    /\ UNCHANGED <<stockData, histogramCalls, inputVars, sentVars>>

\* onNavigate('dashboard') on the comparison or the performance screen.
NavigateDashboard ==
    /\ currentScreen \in {"comparison", "performance"}
    /\ ~view.threw
    /\ currentScreen' = "dashboard"
    /\ view' = DashboardView
    /\ UNCHANGED <<stockData, histogramCalls, inputVars, sentVars>>

NextAnalytics == NavigateComparison \/ NavigatePerformance \/ NavigateDashboard

SpecAnalytics == InitAnalytics /\ [][NextAnalytics]_vars

(***************************************************************************)
(* SpecRender: one render of the PerformanceScreen, taken one forEach      *)
(* iteration at a time. The code runs the rfHistogram call to its end and  *)
(* then the lrHistogram call; here the iterations of the two calls may     *)
(* interleave in any order, which includes the order of the code.          *)
(***************************************************************************)
ZeroActual(n) == [i \in 1..n |-> 0]

InitRender ==
    /\ \/ \E n1 \in 0..MaxLen, n2 \in 0..MaxLen :
             \E rfp \in [1..n1 -> Prices], lrp \in [1..n2 -> Prices] :
                 stockData =
                     WithMetrics(SeriesPair(n1, n2, rfp, lrp,
                                            ZeroActual(MaxOf(n1, n2))),
                                 Num(75), Num(50))
       \/ stockData = WithMetrics(ExampleStockData, Num(75), Num(50))
    /\ currentScreen = "performance"
    /\ view = DashboardView
    /\ histogramCalls = [model \in Models |-> NewCall(ErrorsOf(stockData, model))]
    /\ InputInit
    /\ SentInit

\* One iteration of errors.forEach in the call for a model: the bin index of
\* the next error, and histogram[binIndex].count++ (a TypeError when
\* histogram[binIndex] is undefined).
forEachStep(model) ==
    LET call == histogramCalls[model]
        binIndex == binIndexOf(call.errors[call.position + 1],
                               binSizeOf(call.errors))
    IN  /\ call.status = "running"
        /\ call.position < Len(call.errors)
        /\ histogramCalls' =
               IF IsBinIndex(binIndex)
               THEN [histogramCalls EXCEPT
                        ![HistogramOf(model)].counts[binIndex[1] + 1] = @ + 1,
                        ![model].position = @ + 1]
               ELSE [histogramCalls EXCEPT ![model].status = "threw"]
        /\ UNCHANGED <<stockData, currentScreen, view, inputVars, sentVars>>

\* return histogram, after the last iteration.
returnHistogram(model) ==
    /\ histogramCalls[model].status = "running"
    /\ histogramCalls[model].position = Len(histogramCalls[model].errors)
    /\ histogramCalls' = [histogramCalls EXCEPT ![model].status = "returned"]
    /\ UNCHANGED <<stockData, currentScreen, view, inputVars, sentVars>>

NextRender ==
    \E model \in Models : forEachStep(model) \/ returnHistogram(model)

SpecRender == InitRender /\ [][NextRender]_vars

(***************************************************************************)
(* SpecStock: the stock App (App.tsx) with its input screen (part_003)     *)
(* and its settings screen (part_004). A request and its answer are two    *)
(* steps, so that typing, and the Logout timer, interleave with a fetch.   *)
(***************************************************************************)
InputView == [EmptyView EXCEPT !.screen = "input"]
SettingsView == [EmptyView EXCEPT !.screen = "settings"]

\* for (const baseUrl of API_URLS): the position after position i.
nextIndex_SkipsOne(i) == i + 2
nextIndex(i) == i + 1

\* fetch(`${baseUrl}/api/stock/analyze`, ...) for the next URL of the loop.
Request(call) ==
    [call EXCEPT !.status = "pending",
                 !.contacted = Append(@, API_URLS[nextIndex(Len(@))])]

\* Whether the loop has a URL left after the ones contacted.
HasNextUrl(call) == nextIndex(Len(call.contacted)) <= Len(API_URLS)

\* Input onChange: setSymbol(e.target.value.toUpperCase()).
setSymbol ==
    /\ currentScreen = "input"
    /\ \E text \in TypedTexts : symbol' = ToUpperCase(text)
    /\ UNCHANGED <<stockData, currentScreen, view, histogramCalls, loading,
                   inputError, fetchCall, logoutTimers, sentVars>>

\* handleQuickSelect(stock): setSymbol(stock); setError('').
handleQuickSelect ==
    /\ currentScreen = "input"
    /\ \E stock \in popularStocks : symbol' = stock
    /\ inputError' = ""
    /\ UNCHANGED <<stockData, currentScreen, view, histogramCalls, loading,
                   fetchCall, logoutTimers, sentVars>>

\* handleFetch up to the first await of fetchStockData: the two checks, and
\* for a symbol that passes them setLoading(true), setError('') and the
\* request to the first URL.
handleFetch ==
    /\ currentScreen = "input"
    /\ IF Trim(symbol) = <<>>
       THEN /\ inputError' = "Please enter a stock symbol"
            /\ UNCHANGED <<loading, fetchCall>>
       ELSE IF Len(symbol) > MaxSymbolLength
       THEN /\ inputError' = "Invalid stock symbol"
            /\ UNCHANGED <<loading, fetchCall>>
       ELSE /\ loading' = TRUE
            /\ inputError' = ""
            /\ fetchCall' = Request([NoFetch EXCEPT !.symbol = symbol])
    /\ UNCHANGED <<stockData, currentScreen, view, histogramCalls, symbol,
                   logoutTimers, sentVars>>

\* The Analyze button: disabled={loading || !symbol.trim()}.
ClickAnalyze ==
    /\ ~loading
    /\ Trim(symbol) # <<>>
    /\ handleFetch

\* handleStockDataFetch(data) of the App, and the dashboard it then renders.
handleStockDataFetch_ScreenOnly(data) ==
    /\ currentScreen' = "dashboard"
    /\ view' = DashboardView
    /\ UNCHANGED stockData

handleStockDataFetch(data) ==
    /\ stockData' = data
    /\ currentScreen' = "dashboard"
    /\ view' = DashboardView

\* handleFetch, catch and finally: setError(err.message); setLoading(false).
handleFetch_catch_KeepsLoading(err) ==
    /\ inputError' = err.message
    /\ UNCHANGED loading

handleFetch_catch(err) ==
    /\ inputError' = err.message
    /\ loading' = FALSE

\* The URL in flight fails: fetch rejects, or the status is not OK and the
\* Error is thrown from errorData.detail or the status. The catch of the loop
\* records it as lastError and continues with the next URL; after the last
\* URL fetchStockData throws lastError, which handleFetch shows.
fetch_failed ==
    /\ fetchCall.status = "pending"
    /\ \E answer \in FailedAnswers :
         LET url == fetchCall.contacted[Len(fetchCall.contacted)]
             err == ErrorOf(answer, url)
             call == [fetchCall EXCEPT !.lastError = err, !.failed = @ + 1]
         IN  IF HasNextUrl(call)
             THEN /\ fetchCall' = Request(call)
                  /\ UNCHANGED <<loading, inputError>>
             ELSE /\ fetchCall' = [call EXCEPT !.status = "rejected",
                                               !.rejection = err]
                  /\ handleFetch_catch(err)
    /\ UNCHANGED <<stockData, currentScreen, view, histogramCalls, symbol,
                   logoutTimers, sentVars>>

\* The URL in flight answers OK with a body that parses: return
\* response.json() resolves with the data, handleFetch hands it to the App
\* (onDataFetch) and its finally runs setLoading(false).
fetch_ok ==
    /\ fetchCall.status = "pending"
    /\ \E data \in StockResponses :
         /\ fetchCall' =
                [fetchCall EXCEPT
                    !.status = "resolved", !.data = data,
                    !.from = fetchCall.contacted[Len(fetchCall.contacted)]]
         /\ handleStockDataFetch(data)
    /\ loading' = FALSE
    /\ UNCHANGED <<histogramCalls, symbol, inputError, logoutTimers, sentVars>>

\* The URL in flight answers OK with a body that does not parse: the promise
\* of return response.json() is not awaited inside the try, so its rejection
\* is the rejection of fetchStockData and the loop's catch never sees it.
fetch_ok_unreadable ==
    /\ fetchCall.status = "pending"
    /\ LET url == fetchCall.contacted[Len(fetchCall.contacted)]
           err == ErrorOf("ok-unreadable", url)
       IN  /\ fetchCall' = [fetchCall EXCEPT !.status = "rejected",
                                             !.rejection = err]
           /\ handleFetch_catch(err)
    /\ UNCHANGED <<stockData, currentScreen, view, histogramCalls, symbol,
                   logoutTimers, sentVars>>

\* DashboardScreen: onNavigate('input'); a StockInputScreen is mounted.
NavigateInput ==
    /\ currentScreen = "dashboard"
    /\ currentScreen' = "input"
    /\ view' = InputView
    /\ symbol' = <<>>
    /\ loading' = FALSE
    /\ inputError' = ""
    /\ UNCHANGED <<stockData, histogramCalls, fetchCall, logoutTimers, sentVars>>

\* DashboardScreen: onNavigate('settings').
NavigateSettings ==
    /\ currentScreen = "dashboard"
    /\ currentScreen' = "settings"
    /\ view' = SettingsView
    /\ UNCHANGED <<stockData, histogramCalls, inputVars, sentVars>>

\* SettingsScreen, the back button: onNavigate('dashboard').
SettingsBack ==
    /\ currentScreen = "settings"
    /\ currentScreen' = "dashboard"
    /\ view' = DashboardView
    /\ UNCHANGED <<stockData, histogramCalls, inputVars, sentVars>>

\* handleLogout: setTimeout(() => onNavigate('input'), 1000).
handleLogout ==
    /\ currentScreen = "settings"
    /\ logoutTimers < MaxTimers
    /\ logoutTimers' = logoutTimers + 1
    /\ UNCHANGED <<stockData, currentScreen, view, histogramCalls, symbol,
                   loading, inputError, fetchCall, sentVars>>

\* The timer of handleLogout runs, on whatever screen is shown by then:
\* onNavigate('input'). A StockInputScreen already shown keeps its state.
LogoutTimerFires ==
    /\ logoutTimers > 0
    /\ logoutTimers' = logoutTimers - 1
    /\ currentScreen' = "input"
    /\ IF currentScreen = "input"
       THEN UNCHANGED <<view, symbol, loading, inputError>>
       ELSE /\ view' = InputView
            /\ symbol' = <<>>
            /\ loading' = FALSE
            /\ inputError' = ""
    /\ UNCHANGED <<stockData, histogramCalls, fetchCall, sentVars>>

NextStock ==
    \/ setSymbol
    \/ handleQuickSelect
    \/ ClickAnalyze
    \/ fetch_failed
    \/ fetch_ok
    \/ fetch_ok_unreadable
    \/ NavigateInput
    \/ NavigateSettings
    \/ SettingsBack
    \/ handleLogout
    \/ LogoutTimerFires
    \/ NavigateComparison
    \/ NavigatePerformance
    \/ NavigateDashboard

SpecStock == Init /\ [][NextStock]_vars

(***************************************************************************)
(* SpecInput: handleFetch as a handler, called with every symbol the state *)
(* can hold, whether or not the Analyze button would be enabled for it,    *)
(* and followed to the end of its request. Calls do not overlap.           *)
(***************************************************************************)
InputSymbols ==
    {ToUpperCase(text) : text \in TypedTexts} \cup popularStocks
        \cup {LongSymbol, <<Space, Space, Space, Space, Space, Space>>}

InitInput ==
    /\ stockData = NoStockData
    /\ currentScreen = "input"
    /\ view = EmptyView
    /\ histogramCalls = NoCalls
    /\ symbol \in InputSymbols
    /\ loading = FALSE
    /\ inputError \in {"", ErrorMessage("network")}
    /\ fetchCall = NoFetch
    /\ logoutTimers = 0
    /\ SentInit

CallHandleFetch ==
    /\ ~loading
    /\ handleFetch

NextInput == CallHandleFetch \/ fetch_failed \/ fetch_ok \/ fetch_ok_unreadable

SpecInput == InitInput /\ [][NextInput]_vars

(***************************************************************************)
(* Claims about the histogram (PerformanceScreen).                         *)
(***************************************************************************)
EqualLength(sd) ==
    Len(sd.predictions.randomForest) = Len(sd.predictions.linearRegression)

RECURSIVE SumCounts(_)
SumCounts(h) == IF h = <<>> THEN 0 ELSE h[1].count + SumCounts(Tail(h))

\* The error e lies in the b-th (from 1) of `bins` ranges of width w:
\* [(b-1)w, bw), the last one closed at both ends.
InRange(e, b, w) ==
    /\ ~JsLt(e, JsMul(Num(b - 1), w))
    /\ \/ JsLt(e, JsMul(Num(b), w))
       \/ b = bins /\ e = JsMul(Num(b), w)

CountInRange(errors, b, w) ==
    Cardinality({k \in 1..Len(errors) : InRange(errors[k], b, w)})

SharedBinSize(sd) ==
    JsDiv(MathMax(maxErrorOf(rfErrors(sd)), maxErrorOf(lrErrors(sd))), Num(bins))

\* C1: on the performance screen the two error sets (here non-empty and of
\* equal size) are binned with one bin width, maxError over both sets
\* combined divided by the bin count, and the count shown for a model under a
\* range label is the number of that model's errors inside that range.
C1_SharedBinBoundaries ==
    (/\ view.screen = "performance"
     /\ ~view.threw
     /\ EqualLength(stockData)
     /\ Len(stockData.predictions.randomForest) > 0) =>
        LET w == SharedBinSize(stockData)
        IN  /\ binSizeOf(rfErrors(stockData)) = w
            /\ binSizeOf(lrErrors(stockData)) = w
            /\ \A b \in 1..bins :
                /\ view.combinedHistogram[b].range = histogramRange(b - 1, w)
                /\ view.combinedHistogram[b].RandomForest =
                       CountInRange(rfErrors(stockData), b, w)
                /\ view.combinedHistogram[b].LinearRegression =
                       CountInRange(lrErrors(stockData), b, w)

HistogramConserves(errors, h) ==
    ~h.threw /\ SumCounts(h.histogram) = Len(errors)

\* C2: for every set of error magnitudes (empty, all-zero and single-value
\* sets included) the histogram is produced without failure and its bin
\* counts sum to the number of input values.
C2_HistogramConservation ==
    currentScreen = "performance" =>
        /\ HistogramConserves(rfErrors(stockData), rfHistogram(stockData))
        /\ HistogramConserves(lrErrors(stockData), lrHistogram(stockData))

AllZero(errors) ==
    Len(errors) > 0 /\ \A k \in 1..Len(errors) : errors[k] = Num(0)

OneBinHoldsAll(errors, h) ==
    /\ ~h.threw
    /\ Cardinality({b \in 1..Len(h.histogram) : h.histogram[b].count > 0}) = 1
    /\ \E b \in 1..Len(h.histogram) : h.histogram[b].count = Len(errors)

\* C3: a set of N error magnitudes that are all zero yields, without
\* failure, exactly one non-empty bin, which holds all N values.
C3_HistogramDegeneracy ==
    currentScreen = "performance" =>
        /\ AllZero(rfErrors(stockData)) =>
               OneBinHoldsAll(rfErrors(stockData), rfHistogram(stockData))
        /\ AllZero(lrErrors(stockData)) =>
               OneBinHoldsAll(lrErrors(stockData), lrHistogram(stockData))

IsNumeral(t) == t.text = "digits"

\* C4: no value a screen hands to rendering is NaN or an infinity: the
\* per-point accuracies, the bin range labels, the bin counts, the average
\* errors.
C4_NoNaNOrInfinity ==
    ~view.threw =>
        /\ \A i \in 1..Len(view.performanceTrends) :
               /\ IsFiniteNum(view.performanceTrends[i].rfAccuracy)
               /\ IsFiniteNum(view.performanceTrends[i].lrAccuracy)
               /\ IsFiniteNum(view.performanceTrends[i].rfError)
               /\ IsFiniteNum(view.performanceTrends[i].lrError)
        /\ \A b \in 1..Len(view.combinedHistogram) :
               /\ IsNumeral(view.combinedHistogram[b].range[1])
               /\ IsNumeral(view.combinedHistogram[b].range[2])
        /\ \A m \in 1..Len(view.avgErrors) : IsFiniteNum(view.avgErrors[m].avgError)

\* Every error of the set is counted in the bin of index
\* min(floor(value / width), bins - 1), an index within 0..bins-1 whose range
\* holds the value, and the maximum of the set is counted in the last bin.
PlacedByRule(errors, h) ==
    LET w == binSizeOf(errors)
    IN  /\ ~h.threw
        /\ \A k \in 1..Len(errors) :
              LET ix == binIndexOf(errors[k], w)
              IN  /\ IsBinIndex(ix)
                  /\ InRange(errors[k], ix[1] + 1, w)
                  /\ errors[k] = maxErrorOf(errors) => ix = Num(bins - 1)
        /\ \A b \in 1..Len(h.histogram) :
              h.histogram[b].count = CountInRange(errors, b, w)

\* C14: each error value is placed in bin min(floor(value / width),
\* binCount - 1); bin i covers [i*width, (i+1)*width), the last bin closed on
\* both ends, so the maximum of the set is counted in the last bin and the
\* bin index is always within 0..binCount-1.
C14_BinPlacement ==
    currentScreen = "performance" =>
        /\ PlacedByRule(rfErrors(stockData), rfHistogram(stockData))
        /\ PlacedByRule(lrErrors(stockData), lrHistogram(stockData))

C10_Alignment ==
    LET rfs == stockData.predictions.randomForest
        lrs == stockData.predictions.linearRegression
        trends == performanceTrends(stockData)
    IN  /\ (view.screen = "comparison" /\ EqualLength(stockData)) =>
              /\ ~view.threw
              /\ Len(view.combinedData) = Len(rfs)
              /\ \A i \in 1..Len(rfs) :
                    /\ view.combinedData[i].date = rfs[i].date
                    /\ view.combinedData[i].actual = rfs[i].actual
                    /\ view.combinedData[i].randomForest = rfs[i].predicted
                    /\ view.combinedData[i].linearRegression = lrs[i].predicted
        /\ (currentScreen = "performance" /\ EqualLength(stockData)) =>
              /\ ~trends.threw
              /\ Len(trends.rows) = Len(rfs)
              /\ \A i \in 1..Len(rfs) :
                    /\ trends.rows[i].date = rfs[i].date
                    /\ trends.rows[i].rfError = AbsError(rfs[i])
                    /\ trends.rows[i].lrError = AbsError(lrs[i])

\* Two series of the longest enumerated length with distinct elements have
\* been paired.
C10_Witness ==
    /\ view.screen = "comparison"
    /\ ~view.threw
    /\ Len(view.combinedData) = MaxLen
    /\ Len(stockData.predictions.linearRegression) = MaxLen
    /\ view.combinedData[1].linearRegression # view.combinedData[2].linearRegression
    /\ view.combinedData[1].randomForest # view.combinedData[2].randomForest

\* C11: pairing two series of different lengths always fails with
\* LengthMismatchError, whichever of the two is the longer one: no paired
\* series (a truncated one included) is produced, and no other error is
\* thrown.
C11_LengthMismatch ==
    LET trends == performanceTrends(stockData)
    IN  /\ (view.screen = "comparison" /\ ~EqualLength(stockData)) =>
              /\ view.threw
              /\ view.errorName = "LengthMismatchError"
              /\ view.combinedData = <<>>
        /\ (view.screen = "performance" /\ ~EqualLength(stockData)) =>
              /\ trends.threw
              /\ view.errorName = "LengthMismatchError"
              /\ view.performanceTrends = <<>>

\* C17: the two screens agree on what they derive from the same stockData:
\* the per-point errors of the comparison screen (rfError, lrError of
\* combinedData) are those of the performance screen (rfErrors, lrErrors and
\* the rfError, lrError of performanceTrends), the pairing fails on one
\* screen exactly when it fails on the other, and both screens name the same
\* model as the better one, the case of equal accuracies included.
C17_ScreensAgree ==
    LET cd == combinedData(stockData)
        trends == performanceTrends(stockData)
    IN  /\ cd.threw = trends.threw
        /\ Len(cd.rows) = Len(trends.rows)
        /\ \A i \in 1..Len(cd.rows) :
              /\ cd.rows[i].rfError = rfErrors(stockData)[i]
              /\ cd.rows[i].lrError = lrErrors(stockData)[i]
              /\ cd.rows[i].rfError = trends.rows[i].rfError
              /\ cd.rows[i].lrError = trends.rows[i].lrError
        /\ (view.screen = "comparison" /\ ~view.threw) =>
              /\ view.bestModel = bestModel(stockData)
              /\ \A i \in 1..Len(view.combinedData) :
                    /\ view.combinedData[i].rfError = rfErrors(stockData)[i]
                    /\ view.combinedData[i].lrError = lrErrors(stockData)[i]
        /\ (view.screen = "performance" /\ ~view.threw) =>
              /\ view.bestModel = IF rfBetter(stockData) THEN "Random Forest"
                                  ELSE "Linear Regression"
              /\ \A i \in 1..Len(view.performanceTrends) :
                    /\ view.performanceTrends[i].rfError = cd.rows[i].rfError
                    /\ view.performanceTrends[i].lrError = cd.rows[i].lrError

\* The performance screen is shown after the comparison screen for two
\* series of the longest length whose models have equal accuracies and
\* different errors.
C17_Witness ==
    /\ view.screen = "performance"
    /\ ~view.threw
    /\ Len(view.performanceTrends) = MaxLen
    /\ stockData.modelMetrics.randomForest.accuracy =
           stockData.modelMetrics.linearRegression.accuracy
    /\ view.bestModel = "Linear Regression"
    /\ view.performanceTrends[1].rfError # view.performanceTrends[1].lrError

(***************************************************************************)
(* Claims about the metrics.                                               *)
(***************************************************************************)
IsPercentage(x) == IsFiniteNum(x) /\ ~JsLt(x, Num(0)) /\ ~JsGt(x, Num(100))

\* C12: every accuracy derived from predicted and actual values lies in
\* 0..100, the per-point rfAccuracy and lrAccuracy of the performance trend
\* included, whether actual is positive, zero or negative.
C12_AccuracyBounds ==
    (view.screen = "performance" /\ ~view.threw) =>
        \A i \in 1..Len(view.performanceTrends) :
            /\ IsPercentage(view.performanceTrends[i].rfAccuracy)
            /\ IsPercentage(view.performanceTrends[i].lrAccuracy)

\* C13: computing the metrics of a zero-length series fails with
\* EmptySeriesError, and no aggregate (the average error of a model) is
\* produced from an empty prediction series.
C13_EmptySeries ==
    (/\ view.screen = "comparison"
     /\ Len(stockData.predictions.randomForest) = 0
     /\ Len(stockData.predictions.linearRegression) = 0) =>
        /\ view.threw
        /\ view.errorName = "EmptySeriesError"
        /\ view.avgErrors = <<>>

\* The number of consecutive pairs of the series whose actual delta has the
\* sign sa and whose predicted delta has the sign sp.
PairsWith(series, sa, sp) ==
    Cardinality({i \in 1..(Len(series) - 1) :
        /\ SignInt(series[i + 1].actual - series[i].actual) = sa
        /\ SignInt(series[i + 1].predicted - series[i].predicted) = sp})

StrictlyIncreasing(series) ==
    \A i \in 1..(Len(series) - 1) :
        /\ series[i].actual < series[i + 1].actual
        /\ series[i].predicted < series[i + 1].predicted

DirectionalAccuracyHolds(series, metrics) ==
    /\ Len(series) >= 1 => IsPercentage(metrics.directionalAccuracy)
    /\ Len(series) >= 2 =>
          /\ JsMul(metrics.directionalAccuracy, Num(Len(series) - 1)) =
                 Num(100 * (PairsWith(series, 1, 1) + PairsWith(series, -1, -1)
                            + PairsWith(series, 0, 0)))
          /\ StrictlyIncreasing(series) =>
                 metrics.directionalAccuracy = Num(100)

\* C20: the directional accuracy of a model is the percentage of the
\* consecutive pairs of its series whose actual and predicted deltas are
\* both positive, both negative or both zero; it lies in 0..100, and it is
\* 100 when actual and predicted are both strictly increasing.
C20_DirectionalAccuracy ==
    /\ DirectionalAccuracyHolds(stockData.predictions.randomForest,
                                stockData.modelMetrics.randomForest)
    /\ DirectionalAccuracyHolds(stockData.predictions.linearRegression,
                                stockData.modelMetrics.linearRegression)

\* The comparison screen shows the metrics of a random forest series of the
\* longest length that rises with the actual values (100) next to a linear
\* regression series that stays flat while the actual values rise (0).
C20_Witness ==
    /\ view.screen = "comparison"
    /\ Len(stockData.predictions.randomForest) = MaxLen
    /\ Len(stockData.predictions.linearRegression) = MaxLen
    /\ StrictlyIncreasing(stockData.predictions.randomForest)
    /\ stockData.modelMetrics.randomForest.directionalAccuracy = Num(100)
    /\ PairsWith(stockData.predictions.linearRegression, 1, 0) > 0
    /\ stockData.modelMetrics.linearRegression.directionalAccuracy = Num(0)

IsExampleAligned(series) ==
    series = ExampleAlignedStockData.predictions.randomForest

\* C21, as claimed: for the aligned series [(1,100,100),(2,102,100),
\* (3,98,101)] of (key, predicted, actual) the directional accuracy is 50:
\* exactly one of the two consecutive transitions has matching signs.
C21_ExampleIsFifty ==
    IsExampleAligned(stockData.predictions.randomForest) =>
        /\ stockData.modelMetrics.randomForest.directionalAccuracy = Num(50)
        /\ PairsWith(stockData.predictions.randomForest, 1, 1)
             + PairsWith(stockData.predictions.randomForest, -1, -1)
             + PairsWith(stockData.predictions.randomForest, 0, 0) = 1

\* C21, as amended: for that series the directional accuracy is 0: neither
\* transition has matching signs (predicted rises while actual stays, then
\* predicted falls while actual rises).
C21_ExampleIsZero ==
    IsExampleAligned(stockData.predictions.randomForest) =>
        /\ Len(stockData.predictions.randomForest) = 3
        /\ PairsWith(stockData.predictions.randomForest, 0, 1) = 1
        /\ PairsWith(stockData.predictions.randomForest, 1, -1) = 1
        /\ stockData.modelMetrics.randomForest.directionalAccuracy = Num(0)

\* The dashboard of the analysis of example 1 has been left for the
\* comparison screen, which shows the directional accuracies.
C21_Witness ==
    /\ IsExampleAligned(stockData.predictions.randomForest)
    /\ view.screen = "comparison"
    /\ ~view.threw
    /\ Len(view.combinedData) = 3

(***************************************************************************)
(* Claims about the sentiment Dashboard.                                   *)
(***************************************************************************)
SnapshotSum(snapshot) ==
    JsAdd(JsAdd(snapshot.positive, snapshot.neutral), snapshot.negative)

SummarySum(sd) ==
    JsAdd(JsAdd(sd.positive.percentage, sd.neutral.percentage),
          sd.negative.percentage)

\* C5, as claimed: in every state of the Dashboard each snapshot of the
\* trend sequence has positive + neutral + negative equal to 100.
C5_TrendSumsTo100 ==
    currentView = "dashboard" =>
        \A i \in 1..Len(trendData(sentimentData)) :
            SnapshotSum(trendData(sentimentData)[i]) = Num(100)

\* C5, as amended: in every state of the Dashboard each snapshot of the
\* trend sequence sums to what the three percentages of the summary held
\* sum to (100 when they sum to 100, 0 while the summary is all zero).
C5_TrendSumIsSummarySum ==
    currentView = "dashboard" =>
        \A i \in 1..Len(trendData(sentimentData)) :
            SnapshotSum(trendData(sentimentData)[i]) = SummarySum(sentimentData)

\* A response has been applied whose percentages sum to 100, and the trend
\* moves positive and neutral away from it.
C5_Witness ==
    /\ currentView = "dashboard"
    /\ lastOutcome = "ok"
    /\ SummarySum(sentimentData) = Num(100)
    /\ JsGt(sentimentData.neutral.percentage, Num(3))
    /\ trendData(sentimentData)[6].positive # sentimentData.positive.percentage

\* C6: the trend sequence has 7 snapshots, dated Jan 1 to Jan 7 in order;
\* snapshot 0 is the summary; in every snapshot negative is the summary's
\* negative and positive + neutral is the summary's positive + neutral.
C6_TrendShape ==
    currentView = "dashboard" =>
        LET t == trendData(sentimentData)
        IN  /\ Len(t) = 7
            /\ \A i \in 1..Len(t) : t[i].date = <<"Jan", i>>
            /\ t[1].positive = sentimentData.positive.percentage
            /\ t[1].neutral = sentimentData.neutral.percentage
            /\ \A i \in 1..Len(t) :
                /\ t[i].negative = sentimentData.negative.percentage
                /\ JsAdd(t[i].positive, t[i].neutral) =
                       JsAdd(sentimentData.positive.percentage,
                             sentimentData.neutral.percentage)

\* The trend of the summary of example 3 (60 / 30 / 10).
C6_Witness ==
    /\ currentView = "dashboard"
    /\ DashboardShows = "data"
    /\ sentimentData.positive.percentage = Num(60)
    /\ trendData(sentimentData)[6].positive = Num(63)
    /\ trendData(sentimentData)[6].neutral = Num(27)
    /\ trendData(sentimentData)[7].negative = Num(10)

\* C7: whenever the sample set of the response applied is non-empty, the
\* three percentages the Dashboard holds sum to 100, also when the response
\* lacks a class entry or a percentage.
C7_SummarySumsTo100 ==
    (/\ currentView = "dashboard"
     /\ delivered.kind = "response"
     /\ TotalCount(delivered.counts) > 0) =>
        SummarySum(sentimentData) = Num(100)

AllPercentagesZero(sd) == \A class \in Classes : sd[class].percentage = Num(0)

Reported(class) ==
    /\ delivered.kind = "response"
    /\ delivered.omission # "summary"
    /\ delivered.omission # class
    /\ delivered.omission # "neutral.percentage" \/ class # "neutral"

PassedThrough(post, shown) ==
    /\ post.score # <<>> => shown.score = post.score[1]
    /\ post.engagement # <<>> => shown.engagement = post.engagement[1]
    /\ post.platform # <<>> => shown.platform = post.platform[1]
    /\ post.content # <<>> => shown.content = post.content[1]
    /\ post.timestamp # <<>> => shown.timestamp = post.timestamp[1]

\* C18: the display fields of a sample (content, score, platform,
\* engagement, timestamp) are shown unchanged whenever the response supplies
\* them, a score of 0 and an empty content included; a default is shown only
\* for a field that is absent.
C18_Passthrough ==
    (currentView = "dashboard" /\ lastOutcome = "ok") =>
        /\ Len(topPositivePosts) = Len(delivered.posts.sample_positive.list)
        /\ Len(topNegativePosts) = Len(delivered.posts.sample_negative.list)
        /\ \A i \in 1..Len(topPositivePosts) :
              PassedThrough(delivered.posts.sample_positive.list[i],
                            topPositivePosts[i])
        /\ \A i \in 1..Len(topNegativePosts) :
              PassedThrough(delivered.posts.sample_negative.list[i],
                            topNegativePosts[i])

(***************************************************************************)
(* Claims about the derivations as computations.                           *)
(***************************************************************************)
\* The counts a createHistogramData call over the errors returns when it
\* runs alone.
CountsAlone(errors) ==
    [b \in 1..bins |-> createHistogramData(errors, "alone").histogram[b].count]

\* C19: the histogram derivation is pure. While the two createHistogramData
\* calls of a render run, interleaved in any order, the errors each was
\* given stay the errors derived from stockData, and each call ends as it
\* ends when run alone: it returns the same counts, or throws when that
\* throws.
C19_PureDerivations ==
    \A model \in Models :
        LET call == histogramCalls[model]
            errors == ErrorsOf(stockData, model)
        IN  call.status # "none" =>
                /\ call.errors = errors
                /\ call.status = "returned" =>
                       /\ ~createHistogramData(errors, "alone").threw
                       /\ call.counts = CountsAlone(errors)
                /\ call.status = "threw" =>
                       createHistogramData(errors, "alone").threw

\* Both calls have returned, each having counted MaxLen errors into more
\* than one bin, and the two histograms differ.
C19_Witness ==
    /\ \A model \in Models :
          /\ histogramCalls[model].status = "returned"
          /\ histogramCalls[model].position = MaxLen
          /\ histogramCalls[model].counts[1] > 0
          /\ histogramCalls[model].counts[bins] > 0
    /\ histogramCalls["Random Forest"].errors #
           histogramCalls["Linear Regression"].errors

(***************************************************************************)
(* Claims about the calls of the sentiment Dashboard.                      *)
(***************************************************************************)
\* C22: under every interleaving of keyword changes, Refresh and Retry
\* clicks and response arrivals, a call in flight is the call started last
\* and the spinner is shown until it ends (isLoading is never false while a
\* call is in flight), and the summary and posts of the data view are those
\* of the response to the call started last.
C22_LatestCallWins ==
    currentView = "dashboard" =>
        /\ \A call \in calls : call = started
        /\ calls # {} => isLoading
        /\ DashboardShows = "data" =>
               /\ delivered.kind = "response"
               /\ delivered.call = started
               /\ sentimentData =
                      SentimentDataOf(WireSummary(
                          SentimentAggregator(delivered.counts,
                                              delivered.baseline),
                          delivered.omission))
               /\ topPositivePosts =
                      PositivePosts(delivered.posts.sample_positive,
                                    selectedKeyword)
               /\ topNegativePosts =
                      NegativePosts(delivered.posts.sample_negative,
                                    selectedKeyword)

\* The response to a second call (a Refresh or a Retry) is shown.
C22_Witness ==
    /\ currentView = "dashboard"
    /\ started = 2
    /\ calls = {}
    /\ DashboardShows = "data"
    /\ delivered.call = 2
    /\ TotalCount(delivered.counts) > 0

\* A step in which a call of the mounted Dashboard ends.
CallEnds == currentView' = "dashboard" /\ calls' # calls /\ calls' \subseteq calls

\* A step in which a call starts.
CallStarts == started' = started + 1

\* C23: every call whose request completes (with success, with a status
\* that is not ok, or with a failure) ends with isLoading false and with
\* exactly one of two outcomes, error null and the data view shown, or error
\* a non-empty message and the error view shown; starting a call sets
\* isLoading true and clears error.
C23_CallOutcome ==
    [][/\ CallEnds =>
            /\ isLoading' = FALSE
            /\ \/ error' = "null" /\ DashboardShows' = "data"
               \/ /\ error' \notin {"null", ""}
                  /\ DashboardShows' = "error"
       /\ CallStarts =>
            /\ isLoading' = TRUE
            /\ error' = "null"
            /\ DashboardShows' = "loading"]_vars

\* A Retry from the error view has ended in the data view.
C23_Witness ==
    /\ currentView = "dashboard"
    /\ started = 2
    /\ calls = {}
    /\ lastOutcome = "ok"
    /\ delivered.call = 2
    /\ delivered.posts.sample_positive.has
    /\ DashboardShows = "data"
    /\ isLoading = FALSE

\* C24: a call that ends in the error state leaves sentimentData,
\* topPositivePosts and topNegativePosts exactly as they were before the
\* call.
C24_FailedCallFrame ==
    [][(CallEnds /\ error' # "null") =>
           /\ sentimentData' = sentimentData
           /\ topPositivePosts' = topPositivePosts
           /\ topNegativePosts' = topNegativePosts]_vars

(***************************************************************************)
(* Claims about the stock input screen and the stock App.                  *)
(***************************************************************************)
LastContacted == fetchCall.contacted[Len(fetchCall.contacted)]

\* C25: fetchStockData contacts the four base URLs in the listed order, one
\* at a time (a URL is contacted only after every earlier one has failed);
\* when it resolves, it resolves with the data of the URL contacted last,
\* the first to answer OK, which the App then holds; no URL is contacted
\* after an OK answer.
C25_UrlOrder ==
    /\ Len(fetchCall.contacted) <= Len(API_URLS)
    /\ \A k \in 1..Len(fetchCall.contacted) :
           fetchCall.contacted[k] = API_URLS[k]
    /\ fetchCall.status = "pending" =>
           fetchCall.failed = Len(fetchCall.contacted) - 1
    /\ fetchCall.status = "resolved" =>
           /\ fetchCall.failed = Len(fetchCall.contacted) - 1
           /\ fetchCall.from = LastContacted
           /\ fetchCall.data \in StockResponses
           /\ stockData = fetchCall.data
    /\ (fetchCall.status = "rejected"
            /\ fetchCall.rejection.message = ErrorMessage("ok-unreadable")) =>
           /\ fetchCall.failed = Len(fetchCall.contacted) - 1
           /\ fetchCall.rejection.url = LastContacted

\* The call resolved at the third URL, after the first two had failed.
C25_Witness ==
    /\ fetchCall.status = "resolved"
    /\ fetchCall.from = API_URLS[3]
    /\ fetchCall.failed = 2
    /\ currentScreen = "dashboard"

\* C26: fetchStockData rejects only after every one of the four URLs has
\* been tried and has failed, and the error it rejects with is the error of
\* the last URL tried.
C26_RejectsAfterAllFailed ==
    fetchCall.status = "rejected" =>
        /\ fetchCall.contacted = API_URLS
        /\ fetchCall.failed = Len(API_URLS)
        /\ fetchCall.rejection = fetchCall.lastError
        /\ fetchCall.rejection.url = API_URLS[Len(API_URLS)]

\* The screens the App renders: the conditions of its JSX (App.tsx:50-77).
Screens == {"input", "dashboard", "comparison", "performance", "settings"}
DataScreens == {"dashboard", "comparison", "performance"}
IsRendered(screen) ==
    /\ currentScreen = screen
    /\ screen \in DataScreens => stockData # NoStockData
ScreensRendered == {screen \in Screens : IsRendered(screen)}

\* C27: whenever currentScreen is 'dashboard', 'comparison' or 'performance',
\* stockData is not null, so exactly one screen is rendered in every state;
\* a fetch that failed has left currentScreen at 'input'.
C27_OneScreenRendered ==
    /\ currentScreen \in DataScreens => stockData # NoStockData
    /\ Cardinality(ScreensRendered) = 1
    /\ fetchCall.status \in {"pending", "rejected"} => currentScreen = "input"

\* The comparison screen is shown from fetched data while a Logout timer is
\* still pending.
C27_Witness ==
    /\ currentScreen = "comparison"
    /\ logoutTimers > 0
    /\ fetchCall.status = "resolved"
    /\ stockData = fetchCall.data

\* C30: handleFetch sends no request and leaves loading false when the
\* symbol is empty or only white space (error 'Please enter a stock symbol')
\* or is longer than 5 characters (error 'Invalid stock symbol'); otherwise
\* it clears error and sets loading true, loading stays true while the
\* request is outstanding, and it is false once the request has succeeded or
\* failed. Under SpecInput a step taken while no request is outstanding is a
\* call of handleFetch.
C30_HandleFetch ==
    [][/\ fetchCall.status # "pending" =>
            IF Trim(symbol) = <<>>
            THEN /\ inputError' = "Please enter a stock symbol"
                 /\ loading' = FALSE
                 /\ fetchCall' = fetchCall
            ELSE IF Len(symbol) > 5
            THEN /\ inputError' = "Invalid stock symbol"
                 /\ loading' = FALSE
                 /\ fetchCall' = fetchCall
            ELSE /\ inputError' = ""
                 /\ loading' = TRUE
                 /\ fetchCall'.status = "pending"
                 /\ fetchCall'.symbol = symbol
                 /\ Len(fetchCall'.contacted) = 1
       /\ fetchCall.status = "pending" =>
            /\ loading = TRUE
            /\ fetchCall'.status = "pending" => loading' = TRUE
            /\ fetchCall'.status \in {"resolved", "rejected"} => loading' = FALSE
            /\ fetchCall'.status = "rejected" =>
                   inputError' = fetchCall'.rejection.message]_vars

\* handleFetch has refused a symbol of six characters, and a request for
\* another symbol has failed at the fourth URL.
C30_Witness ==
    \/ /\ symbol = LongSymbol
       /\ inputError = "Invalid stock symbol"
       /\ ~loading
       /\ fetchCall = NoFetch
    \/ /\ fetchCall.status = "rejected"
       /\ Len(fetchCall.contacted) = Len(API_URLS)
       /\ ~loading
       /\ inputError = fetchCall.lastError.message

(***************************************************************************)
(* Claims about the sentiment App and its landing page.                    *)
(***************************************************************************)
NoOuterSpace(text) ==
    /\ text # <<>>
    /\ text[1] # Space
    /\ text[Len(text)] # Space

OnlySpace(text) == \A i \in 1..Len(text) : text[i] = Space

\* C28: currentView is 'dashboard' exactly when selectedKeyword is non-empty
\* and has no leading or trailing white space, and 'landing' exactly when
\* selectedKeyword is empty; on the landing page, with a keyword that is
\* empty or only white space, a step that does not type (a submission)
\* changes nothing.
C28_ViewMatchesKeyword ==
    /\ [](/\ currentView \in {"landing", "dashboard"}
          /\ currentView = "dashboard" <=> NoOuterSpace(selectedKeyword)
          /\ currentView = "landing" <=> selectedKeyword = <<>>)
    /\ [][(/\ currentView = "landing"
           /\ OnlySpace(landingKeyword)
           /\ landingKeyword' = landingKeyword) => UNCHANGED vars]_vars

\* The Dashboard is shown for 'ml', which was typed with a trailing space.
C28_Witness ==
    /\ currentView = "dashboard"
    /\ selectedKeyword = <<"m", "l">>
    /\ landingKeyword = <<>>

\* C29: when the data view holds a summary whose three percentages lie in
\* 0..100, every field of every trend snapshot lies in 0..100, the range of
\* the chart's Y axis.
C29_TrendInChartRange ==
    (/\ currentView = "dashboard"
     /\ DashboardShows = "data"
     /\ \A class \in Classes : IsPercentage(sentimentData[class].percentage)) =>
        \A i \in 1..Len(trendData(sentimentData)) :
            /\ IsPercentage(trendData(sentimentData)[i].positive)
            /\ IsPercentage(trendData(sentimentData)[i].neutral)
            /\ IsPercentage(trendData(sentimentData)[i].negative)

====
